---- MODULE Spec2Model ----
(***************************************************************************)
(* Model of the priority sampling engine of the trace agent                *)
(* (pkg/trace/sampler/prioritysampler.go): Sample and applyRate, the       *)
(* Run/Stop lifecycle with its two goroutines, and the periodic            *)
(* publication of the per-service rates.  The Sampler core, the signature  *)
(* catalog and the span metric helpers live in other files of the package  *)
(* and are modelled from their documented contract.  A second part models  *)
(* FindHeaderDirs of the kernel package with the two lookups it tries.     *)
(***************************************************************************)
EXTENDS Integers, Sequences, FiniteSets, TLC

VARIABLES
    catalog,        \* serviceKeyCatalog: map from ServiceSignature to Signature
    counts,         \* Backend: CountSignature invocations per Signature
    accounted,      \* Backend: value of counts at the last decay tick
    score,          \* Backend: decayed score per Signature, in 1/ScoreUnit
    sampledCount,   \* Backend: CountSample invocations
    span,           \* the root span each producer hands to Sample
    call,           \* per producer: position and locals of its Sample call
    nCalls,         \* history: Sample calls that took the counting path
    run,            \* position of the Run() call
    wg,             \* the sync.WaitGroup counter of Run
    core,           \* goroutine 1 of Run: s.Sampler.Run(); wg.Done()
    sync,           \* goroutine 2 of Run: the rate-sync loop
    samplerExit,    \* Sampler.Stop() has signalled the core loop
    exit,           \* s.exit is closed
    stop,           \* per Stop() call: its position
    rateByService,  \* the shared RateByService store (last SetAll argument)
    panicked,       \* the process died of a panic
    headers         \* the FindHeaderDirs call: its host, position and result

vars == <<catalog, counts, accounted, score, sampledCount, span, call, nCalls,
          run, wg, core, sync, samplerExit, exit, stop,
          rateByService, panicked, headers>>

engineVars == <<catalog, counts, accounted, score, sampledCount>>
lifeVars == <<run, wg, core, sync, samplerExit, exit, stop,
              rateByService, panicked, headers>>

-----------------------------------------------------------------------------
(* Bounds *)

MaxCalls == 2       \* Sample calls that reach the counting path
MaxFeed == 1        \* the same, while the lifecycle is explored
MaxStops == 2       \* Stop() calls
ScoreUnit == 2      \* scores are kept in multiples of 1/ScoreUnit
MaxConcCalls == 4   \* the same as MaxCalls, with concurrent callers
MaxHalvings == 2    \* decay ticks an engine has been through when looked at
MaxVersion == 2     \* kernel version codes of the host and of the headers

Producers == {1}
Callers == {1, 2}   \* the producers that call Sample concurrently
Stoppers == 1..MaxStops

Services == {"a", "b"}
Envs == {"prod", "dev"}
ParentIDs == {0, 7}
TraceLens == {0, 2}
Priorities == {-1, 0, 1, 2}

-----------------------------------------------------------------------------
(* Constants of the program *)

deprecatedRateKey == "_sampling_priority_rate_v1"
agentRateKey == "_dd.agent_psr"
ruleRateKey == "_dd.rule_psr"
KeySamplingPriority == "_sampling_priority_v1"

\* prioritySamplingRateThresholdTo1 = 0.3
ThresholdNum == 3
ThresholdDen == 10

\* extraRate * targetTPS, the arguments of NewPriorityEngine: 0.3
TargetNum == 3
TargetDen == 10

\* the priority reported for a root without the priority metric
PriorityNone == -1

-----------------------------------------------------------------------------
(* float64 values that are not integers are exact fractions n/d *)

RECURSIVE GCD(_, _)
GCD(a, b) == IF b = 0 THEN a ELSE GCD(b, a % b)

Rat(n, d) == [n |-> n \div GCD(n, d), d |-> d \div GCD(n, d)]
One == Rat(1, 1)
Gt(a, b) == a.n * b.d > b.n * a.d
Min1(r) == IF Gt(r, One) THEN One ELSE r

prioritySamplingRateThresholdTo1 == Rat(ThresholdNum, ThresholdDen)

At(f, k) == IF k \in DOMAIN f THEN f[k] ELSE 0
Put(f, k, v) == [x \in (DOMAIN f) \cup {k} |-> IF x = k THEN v ELSE f[x]]
Range(s) == {s[i] : i \in DOMAIN s}

RECURSIVE SumOver(_, _)
SumOver(f, S) ==
    IF S = {} THEN 0
    ELSE LET k == CHOOSE x \in S : TRUE IN f[k] + SumOver(f, S \ {k})
Sum(f) == SumOver(f, DOMAIN f)

-----------------------------------------------------------------------------
(* Span metrics *)

getMetric(s, k) ==
    IF k \in DOMAIN s.Metrics THEN <<s.Metrics[k], TRUE>> ELSE <<Rat(0, 1), FALSE>>

hasMetric(s, k) == getMetric(s, k)[2]

setMetric(s, k, v) == [s EXCEPT !.Metrics = Put(s.Metrics, k, v)]

\* the float64 metric converted to the integer SamplingPriority
GetSamplingPriority(s) ==
    IF hasMetric(s, KeySamplingPriority)
    THEN <<s.Metrics[KeySamplingPriority].n \div s.Metrics[KeySamplingPriority].d, TRUE>>
    ELSE <<PriorityNone, FALSE>>

-----------------------------------------------------------------------------
(* Signature catalog *)

ServiceSignature(service, env) == [service |-> service, env |-> env]

\* the identifier of a pair: opaque, and different for different pairs
NewSignature(svcSig) == <<svcSig.service, svcSig.env>>

\* register returns <<catalog after the call, Signature>>
register(cat, svcSig) ==
    IF svcSig \in DOMAIN cat
    THEN <<cat, cat[svcSig]>>
    ELSE <<Put(cat, svcSig, NewSignature(svcSig)), NewSignature(svcSig)>>

-----------------------------------------------------------------------------
(* Sampler core: rates *)

TotalScore == Sum(score)

GetDefaultSampleRate ==
    IF TotalScore = 0 THEN One
    ELSE Min1(Rat(TargetNum * ScoreUnit, TargetDen * TotalScore))

GetSignatureSampleRate(sig) ==
    IF At(score, sig) = 0 THEN GetDefaultSampleRate
    ELSE Min1(Rat(TargetNum * ScoreUnit, TargetDen * score[sig]))

GetAllSignatureSampleRates ==
    [sig \in {x \in DOMAIN score : score[x] > 0} |-> GetSignatureSampleRate(sig)]

catalogRatesByService(cat, allRates, defaultRate) ==
    [svcSig \in DOMAIN cat |->
        IF cat[svcSig] \in DOMAIN allRates
        THEN allRates[cat[svcSig]]
        ELSE defaultRate]

\* variant of lines 163-167: the default rate is not asked for, it is 1
ratesByService_DefaultOne ==
    catalogRatesByService(catalog, GetAllSignatureSampleRates, One)

\* variant of lines 163-167: only the signatures with a rate of their own
ratesByService_Scored ==
    [svcSig \in {x \in DOMAIN catalog : catalog[x] \in DOMAIN GetAllSignatureSampleRates}
        |-> GetAllSignatureSampleRates[catalog[svcSig]]]

\* lines 163-167
ratesByService ==
    catalogRatesByService(catalog, GetAllSignatureSampleRates, GetDefaultSampleRate)

-----------------------------------------------------------------------------
(* Sample and applyRate *)

\* variants of the checks of Sample, lines 98-117
IsEmptyTrace_Never(len) == FALSE
NotSetByClient_BelowMinusOne(samplingPriority) == samplingPriority < -1
NotSetByClient_Never(samplingPriority) == FALSE
AlreadyFinal_AboveTwo(samplingPriority) == samplingPriority > 2

IsEmptyTrace(len) == len = 0
Sampled(samplingPriority) == samplingPriority > 0
NotSetByClient(samplingPriority) == samplingPriority < 0
AlreadyFinal(samplingPriority) == samplingPriority > 1

\* variant of lines 150-152: the rate is written as computed
ThresholdTo1_Raw(rate) == rate

ThresholdTo1(rate) ==
    IF Gt(rate, prioritySamplingRateThresholdTo1) THEN One ELSE rate

\* variant of applyRate: the parent of the span is not looked at
applyRate_AnySpan(root, signature) ==
    IF hasMetric(root, agentRateKey) THEN root
    ELSE IF hasMetric(root, ruleRateKey) THEN root
    ELSE IF ~hasMetric(root, deprecatedRateKey)
         THEN setMetric(root, deprecatedRateKey,
                        ThresholdTo1(GetSignatureSampleRate(signature)))
         ELSE root

\* variant of applyRate: the legacy key is written even when already present
applyRate_Overwrite(root, signature) ==
    IF root.ParentID # 0 THEN root
    ELSE IF hasMetric(root, agentRateKey) THEN root
    ELSE IF hasMetric(root, ruleRateKey) THEN root
    ELSE setMetric(root, deprecatedRateKey,
                   ThresholdTo1(GetSignatureSampleRate(signature)))

\* applyRate returns the root span after the call
applyRate(root, signature) ==
    IF root.ParentID # 0 THEN root
    ELSE IF hasMetric(root, agentRateKey) THEN root
    ELSE IF hasMetric(root, ruleRateKey) THEN root
    ELSE IF ~hasMetric(root, deprecatedRateKey)
         THEN setMetric(root, deprecatedRateKey,
                        ThresholdTo1(GetSignatureSampleRate(signature)))
         ELSE root

IdleCall == [pc |-> "idle", traceLen |-> 0, env |-> "", samplingPriority |-> 0,
             sampled |-> FALSE, signature |-> <<>>, ret |-> FALSE,
             pre |-> <<>>]

\* history: the state at the entry of the call, against which its effect is
\* stated.  With concurrent callers the difference to the state at entry is
\* not the effect of the call alone, and it is not recorded.
Snapshot(c) ==
    IF DOMAIN call = {c}
    THEN [catalog |-> catalog, counts |-> counts,
          sampledCount |-> sampledCount, root |-> span[c]]
    ELSE <<>>

\* history: the call is one the feedback loop has to count
InFeedbackLoop(len, root) ==
    /\ len > 0
    /\ KeySamplingPriority \in DOMAIN root.Metrics
    /\ root.Metrics[KeySamplingPriority] \in {Rat(0, 1), Rat(1, 1)}

Kept(root) ==
    /\ KeySamplingPriority \in DOMAIN root.Metrics
    /\ root.Metrics[KeySamplingPriority] = Rat(1, 1)

TotalCalls == Sum(nCalls.counted)

Record(c, len, root, env) ==
    IF InFeedbackLoop(len, root)
    THEN [counted |-> Put(nCalls.counted, [service |-> root.Service, env |-> env],
                          At(nCalls.counted, [service |-> root.Service, env |-> env]) + 1),
          sampled |-> nCalls.sampled + (IF Kept(root) THEN 1 ELSE 0),
          by |-> Put(nCalls.by, c, At(nCalls.by, c) + 1)]
    ELSE nCalls

\* lines 96-117: the checks that return without bookkeeping
Sample_Enter(c, budget) ==
    /\ ~panicked
    /\ call[c].pc \in {"idle", "done"}
    /\ \E len \in TraceLens, env \in Envs :
         LET root == span[c]
             samplingPriority == GetSamplingPriority(root)[1]
             sampled == Sampled(samplingPriority)
             entered == [pc |-> "done", traceLen |-> len, env |-> env,
                         samplingPriority |-> 0,
                         sampled |-> FALSE, signature |-> <<>>, ret |-> FALSE,
                         pre |-> Snapshot(c)]
             read == [entered EXCEPT !.samplingPriority = samplingPriority,
                                     !.sampled = sampled]
         IN  /\ InFeedbackLoop(len, root) => TotalCalls < budget
             /\ nCalls' = Record(c, len, root, env)
             /\ IF IsEmptyTrace(len)
                THEN call' = [call EXCEPT ![c] = entered]
                ELSE IF NotSetByClient(samplingPriority)
                THEN call' = [call EXCEPT ![c] = [read EXCEPT !.ret = sampled]]
                ELSE IF AlreadyFinal(samplingPriority)
                THEN call' = [call EXCEPT ![c] = [read EXCEPT !.ret = sampled]]
                ELSE call' = [call EXCEPT ![c] = [read EXCEPT !.pc = "register"]]
    /\ UNCHANGED <<engineVars, span, lifeVars>>

\* variant of line 119: the environment is left out of the key
SignatureKey_NoEnv(root, env) == ServiceSignature(root.Service, "")

\* line 119: the key under which the trace is registered
SignatureKey(root, env) == ServiceSignature(root.Service, env)

\* variant of line 119: every caller binds the pair to an identifier of its own
Sample_Register_PerCaller(c) ==
    /\ ~panicked
    /\ call[c].pc = "register"
    /\ LET svcSig == SignatureKey(span[c], call[c].env)
           sig == <<svcSig.service, svcSig.env, c>>
       IN  /\ catalog' = Put(catalog, svcSig, sig)
           /\ call' = [call EXCEPT ![c].signature = sig, ![c].pc = "count"]
    /\ UNCHANGED <<counts, accounted, score, sampledCount, span, nCalls, lifeVars>>

\* line 119
Sample_Register(c) ==
    /\ ~panicked
    /\ call[c].pc = "register"
    /\ LET r == register(catalog, SignatureKey(span[c], call[c].env))
       IN  /\ catalog' = r[1]
           /\ call' = [call EXCEPT ![c].signature = r[2], ![c].pc = "count"]
    /\ UNCHANGED <<counts, accounted, score, sampledCount, span, nCalls, lifeVars>>

\* variant of lines 122-124: the increment is a read followed by a write, and
\* of two callers at the same counter one overwrites the other
Sample_CountSignature_Racy(c) ==
    /\ ~panicked
    /\ call[c].pc = "count"
    /\ counts' = IF \E o \in DOMAIN call :
                       /\ o # c
                       /\ call[o].pc = "count"
                       /\ call[o].signature = call[c].signature
                 THEN counts
                 ELSE Put(counts, call[c].signature, At(counts, call[c].signature) + 1)
    /\ IF call[c].sampled
       THEN call' = [call EXCEPT ![c].pc = "applyRate"]
       ELSE call' = [call EXCEPT ![c].pc = "done", ![c].ret = call[c].sampled]
    /\ UNCHANGED <<catalog, accounted, score, sampledCount, span, nCalls, lifeVars>>

\* variant of lines 122-124: a stopped core no longer counts
Sample_CountSignature_UnlessStopped(c) ==
    /\ ~panicked
    /\ call[c].pc = "count"
    /\ counts' = IF samplerExit THEN counts
                 ELSE Put(counts, call[c].signature, At(counts, call[c].signature) + 1)
    /\ IF call[c].sampled
       THEN call' = [call EXCEPT ![c].pc = "applyRate"]
       ELSE call' = [call EXCEPT ![c].pc = "done", ![c].ret = call[c].sampled]
    /\ UNCHANGED <<catalog, accounted, score, sampledCount, span, nCalls, lifeVars>>

\* variant of lines 122-124: only the sampled traces are counted
Sample_CountSignature_OnlySampled(c) ==
    /\ ~panicked
    /\ call[c].pc = "count"
    /\ IF call[c].sampled
       THEN /\ counts' = Put(counts, call[c].signature,
                             At(counts, call[c].signature) + 1)
            /\ call' = [call EXCEPT ![c].pc = "applyRate"]
       ELSE /\ counts' = counts
            /\ call' = [call EXCEPT ![c].pc = "done", ![c].ret = call[c].sampled]
    /\ UNCHANGED <<catalog, accounted, score, sampledCount, span, nCalls, lifeVars>>

\* lines 122-124 and 128
Sample_CountSignature(c) ==
    /\ ~panicked
    /\ call[c].pc = "count"
    /\ counts' = Put(counts, call[c].signature, At(counts, call[c].signature) + 1)
    /\ IF call[c].sampled
       THEN call' = [call EXCEPT ![c].pc = "applyRate"]
       ELSE call' = [call EXCEPT ![c].pc = "done", ![c].ret = call[c].sampled]
    /\ UNCHANGED <<catalog, accounted, score, sampledCount, span, nCalls, lifeVars>>

\* line 125
Sample_ApplyRate(c) ==
    /\ ~panicked
    /\ call[c].pc = "applyRate"
    /\ span' = [span EXCEPT ![c] = applyRate(span[c], call[c].signature)]
    /\ call' = [call EXCEPT ![c].pc = "countSample"]
    /\ UNCHANGED <<engineVars, nCalls, lifeVars>>

\* lines 126-128
Sample_CountSample(c) ==
    /\ ~panicked
    /\ call[c].pc = "countSample"
    /\ sampledCount' = sampledCount + 1
    /\ call' = [call EXCEPT ![c].pc = "done", ![c].ret = call[c].sampled]
    /\ UNCHANGED <<catalog, counts, accounted, score, span, nCalls, lifeVars>>

Sample(c) ==
    \/ Sample_Enter(c, MaxCalls)
    \/ Sample_Register(c)
    \/ Sample_CountSignature(c)
    \/ Sample_ApplyRate(c)
    \/ Sample_CountSample(c)

\* Sample while the lifecycle is explored
FedSample(c) ==
    \/ Sample_Enter(c, MaxFeed)
    \/ Sample_Register(c)
    \/ Sample_CountSignature(c)
    \/ Sample_ApplyRate(c)
    \/ Sample_CountSample(c)

-----------------------------------------------------------------------------
(* The producer: the trace it received and hands to Sample *)

\* a rate annotation already on the root when the trace arrives
PresetRate == Rat(1, 2)

Merge(f, g) == [k \in (DOMAIN f) \cup (DOMAIN g) |-> IF k \in DOMAIN f THEN f[k] ELSE g[k]]
Restrict(f, S) == [k \in (DOMAIN f) \cap S |-> f[k]]

RateKeys == {agentRateKey, ruleRateKey, deprecatedRateKey}
RateKeySets == {{}, {agentRateKey}, {ruleRateKey}, {deprecatedRateKey}}

\* the priority metric of a root: absent, or one of Priorities
PriorityMetrics ==
    {<<>>} \cup {[k \in {KeySamplingPriority} |-> Rat(p, 1)] : p \in Priorities}

\* the rate annotations of a root as the tracer sets them
RateMetrics == {[k \in ks |-> PresetRate] : ks \in RateKeySets}

\* the roots that differ from r in one part: service, parent, priority or
\* rate annotations
OtherRoots(r) ==
    ({[r EXCEPT !.Service = s] : s \in Services}
     \cup {[r EXCEPT !.ParentID = p] : p \in ParentIDs}
     \cup {[r EXCEPT !.Metrics = Merge(m, Restrict(r.Metrics, RateKeys))] :
              m \in PriorityMetrics}
     \cup {[r EXCEPT !.Metrics = Merge(m, Restrict(r.Metrics, {KeySamplingPriority}))] :
              m \in RateMetrics})
    \ {r}

\* a root without parent and without rate annotation
IsPlainRoot(r) ==
    /\ r.ParentID = 0
    /\ DOMAIN r.Metrics \subseteq {KeySamplingPriority}

\* the roots handed to Sample: every kept root, and the plain roots of the
\* traces that are not kept (ParentID and the rate keys are read by applyRate)
IsRoot(r) == Kept(r) \/ IsPlainRoot(r)

\* the root of a kept trace of service "a" without a rate annotation
IsKeptRoot(r) ==
    /\ r.Service = "a"
    /\ IsPlainRoot(r)
    /\ Kept(r)

\* between two Sample calls the producer gets another root: one part of the
\* span changes at a time, so that every combination is reached
PrepareRoot(c, roots) ==
    /\ ~panicked
    /\ call[c].pc \in {"idle", "done"}
    /\ \E root \in roots : span' = [span EXCEPT ![c] = root]
    /\ call' = [call EXCEPT ![c] = IdleCall]
    /\ UNCHANGED <<engineVars, nCalls, lifeVars>>

NewTrace(c) == PrepareRoot(c, {r \in OtherRoots(span[c]) : IsRoot(r)})

NewKeptTrace(c) == PrepareRoot(c, {r \in OtherRoots(span[c]) : IsKeptRoot(r)})

-----------------------------------------------------------------------------
(* Run: the two goroutines and wg.Wait *)

\* wg.Add(2), line 64
WaitGroupSize == 2

\* lines 62-71 and 86: wg.Add(2), both goroutines started, Run waits
Run_Start ==
    /\ ~panicked
    /\ run = "init"
    /\ run' = "wait"
    /\ wg' = WaitGroupSize
    /\ core' = "run"
    /\ sync' = "select"
    /\ UNCHANGED <<engineVars, span, call, nCalls, samplerExit, exit,
                   stop, rateByService, panicked, headers>>

\* Sampler.Run: the decay tick, score = score / 2 + counts since the last tick
Sampler_DecayTick ==
    /\ ~panicked
    /\ core = "run"
    /\ score' = [sig \in DOMAIN counts |->
                    At(score, sig) \div 2
                    + ScoreUnit * (counts[sig] - At(accounted, sig))]
    /\ accounted' = counts
    /\ UNCHANGED <<catalog, counts, sampledCount, span, call, nCalls, lifeVars>>

\* lines 67-68: Sampler.Run returns once Sampler.Stop has signalled it, wg.Done()
Core_Done ==
    /\ ~panicked
    /\ core = "run"
    /\ samplerExit
    /\ core' = "done"
    /\ wg' = wg - 1
    /\ UNCHANGED <<engineVars, span, call, nCalls, run, sync,
                   samplerExit, exit, stop, rateByService, panicked, headers>>

\* lines 76-77: the tick case of the select is chosen
Sync_Tick ==
    /\ ~panicked
    /\ sync = "select"
    /\ sync' = "setAll"
    /\ UNCHANGED <<engineVars, span, call, nCalls, run, wg, core,
                   samplerExit, exit, stop, rateByService, panicked, headers>>

\* line 78: s.rateByService.SetAll(s.ratesByService()), then the next select
Sync_SetAll ==
    /\ ~panicked
    /\ sync = "setAll"
    /\ rateByService' = ratesByService
    /\ sync' = "select"
    /\ UNCHANGED <<engineVars, span, call, nCalls, run, wg, core,
                   samplerExit, exit, stop, panicked, headers>>

\* variant of lines 79-81: the loop is left without wg.Done()
Sync_Exit_NoDone ==
    /\ ~panicked
    /\ sync = "select"
    /\ exit
    /\ sync' = "done"
    /\ UNCHANGED <<engineVars, span, call, nCalls, run, wg, core,
                   samplerExit, exit, stop, rateByService, panicked, headers>>

\* lines 79-81: the exit case is chosen
Sync_Exit ==
    /\ ~panicked
    /\ sync = "select"
    /\ exit
    /\ sync' = "done"
    /\ wg' = wg - 1
    /\ UNCHANGED <<engineVars, span, call, nCalls, run, core,
                   samplerExit, exit, stop, rateByService, panicked, headers>>

\* variant of wg.Wait(): one goroutine left is not waited for
WaitReturns_Early(n) == n <= 1

\* wg.Wait() returns when the counter is zero
WaitReturns(n) == n = 0

\* variant of lines 86-87: Run returns without wg.Wait()
Run_Return_NoWait ==
    /\ ~panicked
    /\ run = "wait"
    /\ run' = "returned"
    /\ UNCHANGED <<engineVars, span, call, nCalls, wg, core, sync,
                   samplerExit, exit, stop, rateByService, panicked, headers>>

\* line 86-87
Run_Return ==
    /\ ~panicked
    /\ run = "wait"
    /\ WaitReturns(wg)
    /\ run' = "returned"
    /\ UNCHANGED <<engineVars, span, call, nCalls, wg, core, sync,
                   samplerExit, exit, stop, rateByService, panicked, headers>>

Run ==
    \/ Run_Start
    \/ Sampler_DecayTick
    \/ Core_Done
    \/ Sync_Tick
    \/ Sync_SetAll
    \/ Sync_Exit
    \/ Run_Return

-----------------------------------------------------------------------------
(* Stop *)

\* line 91; the callers of Stop() are interchangeable, so they are numbered
\* in the order in which they enter
Stop_Sampler(k) ==
    /\ ~panicked
    /\ stop[k].pc = "idle"
    /\ \A j \in Stoppers : j < k => stop[j].pc # "idle"
    /\ samplerExit' = TRUE
    /\ stop' = [stop EXCEPT ![k] = [pc |-> "close", duringRun |-> run = "wait"]]
    /\ UNCHANGED <<engineVars, span, call, nCalls, run, wg, core, sync,
                   exit, rateByService, panicked, headers>>

\* line 92: closing a closed channel panics
Stop_Close(k) ==
    /\ ~panicked
    /\ stop[k].pc = "close"
    /\ IF exit
       THEN /\ panicked' = TRUE
            /\ stop' = [stop EXCEPT ![k].pc = "panic"]
            /\ UNCHANGED exit
       ELSE /\ exit' = TRUE
            /\ stop' = [stop EXCEPT ![k].pc = "returned"]
            /\ UNCHANGED panicked
    /\ UNCHANGED <<engineVars, span, call, nCalls, run, wg, core, sync,
                   samplerExit, rateByService, headers>>

Stop(k) == Stop_Sampler(k) \/ Stop_Close(k)

-----------------------------------------------------------------------------
(* Kernel headers: FindHeaderDirs and the two lookups it tries *)

\* the error values: a message and, for an error made with %w, the message
\* of the error it wraps
NoError == [msg |-> "", cause |-> ""]
Err(msg) == [msg |-> msg, cause |-> ""]
Wrap(msg, e) == [msg |-> msg, cause |-> e.msg]

ErrNotExist == Err("file does not exist")
ENOENT == Err("no such file or directory")
EACCES == Err("permission denied")

\* os.IsNotExist does not look into an error made with %w
IsNotExist(e) == e.cause = "" /\ e.msg \in {ErrNotExist.msg, ENOENT.msg}

\* LINUX_VERSION_CODE values
Versions == 1..MaxVersion

\* what reading include/generated/uapi/linux/version.h of a directory gives
VersionFiles ==
    {[v |-> 0, err |-> e] : e \in {ENOENT, EACCES, Err("no kernel version found")}}
    \cup {[v |-> v, err |-> NoError] : v \in Versions}

\* the host FindHeaderDirs runs on
Hosts ==
    [hostVersion : {[v |-> 0, err |-> Err("uname failed")]}
                   \cup {[v |-> v, err |-> NoError] : v \in Versions},
     KernelVersion : {"", "5.4.0"},
     Platform : {"debian", "ubuntu"},
     build : VersionFiles,
     source : VersionFiles,
     tmp : {[isDir |-> FALSE, file |-> [v |-> 0, err |-> ENOENT]]}
           \cup {[isDir |-> TRUE, file |-> f] : f \in VersionFiles},
     sysfs : {"present", "loadFails", "absentAfterLoad", "presentAfterLoad"},
     unarchives : BOOLEAN]

\* a path: /lib/modules/<uname -r>/<leaf>, or <tmp>/linux-headers-<version>
ModulesPath(kernel, leaf) ==
    [base |-> "/lib/modules/", kernel |-> kernel, code |-> 0, leaf |-> leaf]
TmpPath(v) ==
    [base |-> "/tmp/linux-headers-", kernel |-> "", code |-> v, leaf |-> ""]

\* lines 74-82, with the file system of the host as the argument
getHeaderVersion(host, path) ==
    IF path.leaf = "build" THEN host.build
    ELSE IF path.leaf = "source" THEN host.source
    ELSE host.tmp.file

\* lines 49-56: fmt.Sprintf of the two patterns with uname -r
candidateDirs(host) ==
    IF host.Platform = "debian"
    THEN <<ModulesPath(host.KernelVersion, "build"),
           ModulesPath(host.KernelVersion, "source")>>
    ELSE <<ModulesPath(host.KernelVersion, "build")>>

\* lines 58-71: the loop over the directories, from the i-th on
RECURSIVE scanDirs(_, _, _, _)
scanDirs(host, v, dirs, i) ==
    IF i > Len(dirs) THEN [dirs |-> <<>>, err |-> ErrNotExist]
    ELSE LET r == getHeaderVersion(host, dirs[i])
         IN  IF r.err # NoError
             THEN IF IsNotExist(r.err)
                  THEN scanDirs(host, v, dirs, i + 1)
                  ELSE [dirs |-> <<>>,
                        err |-> Wrap("error validating headers version", r.err)]
             ELSE IF r.v = v
                  THEN [dirs |-> dirs, err |-> NoError]
                  ELSE scanDirs(host, v, dirs, i + 1)

\* lines 43-72
getHeaderDirs(host, v) ==
    IF host.KernelVersion = ""
    THEN [dirs |-> <<>>, err |-> Err("unable to get host metadata")]
    ELSE scanDirs(host, v, candidateDirs(host), 1)

\* lines 103-131
getSysfsHeaderDirs(host, v) ==
    LET tmpPath == TmpPath(v)
    IN  IF host.tmp.isDir
        THEN LET r == getHeaderVersion(host, tmpPath)
             IN  IF r.err # NoError
                 THEN [dirs |-> <<>>,
                       err |-> Wrap("unable to verify headers version", r.err)]
                 ELSE IF r.v # v
                 THEN [dirs |-> <<>>,
                       err |-> Err("header version does not match expected host version")]
                 ELSE [dirs |-> <<tmpPath>>, err |-> NoError]
        ELSE IF host.sysfs = "loadFails"
        THEN [dirs |-> <<>>, err |-> Err("modprobe kheaders failed")]
        ELSE IF host.sysfs = "absentAfterLoad"
        THEN [dirs |-> <<>>, err |-> Err("unable to find sysfs kernel headers")]
        ELSE IF ~host.unarchives
        THEN [dirs |-> <<>>,
              err |-> Wrap("unable to extract kernel headers", Err("unarchive failed"))]
        ELSE [dirs |-> <<tmpPath>>, err |-> NoError]

NoResult == [dirs |-> <<>>, err |-> NoError]

\* no FindHeaderDirs call is under way
NoLookup == [pc |-> "none"]

\* FindHeaderDirs has been called on host; primary and fallback are history:
\* the lookups made so far and what they returned
Lookup(host) ==
    [pc |-> "hostVersion", host |-> host, hv |-> 0, tried |-> {},
     primary |-> NoResult, fallback |-> NoResult, ret |-> NoResult]

\* lines 24-27
Find_HostVersion ==
    /\ headers.pc = "hostVersion"
    /\ LET r == headers.host.hostVersion
       IN  IF r.err # NoError
           THEN headers' = [headers EXCEPT
                    !.pc = "done",
                    !.ret = [dirs |-> <<>>,
                             err |-> Wrap("unable to determine host kernel version",
                                          r.err)]]
           ELSE headers' = [headers EXCEPT !.pc = "getHeaderDirs", !.hv = r.v]
    /\ UNCHANGED <<engineVars, span, call, nCalls, run, wg, core, sync,
                   samplerExit, exit, stop, rateByService, panicked>>

\* lines 29-34 and 40: the primary lookup and what follows from its result
Find_Primary ==
    /\ headers.pc = "getHeaderDirs"
    /\ LET r == getHeaderDirs(headers.host, headers.hv)
           tried == [headers EXCEPT !.primary = r,
                                    !.tried = @ \cup {"getHeaderDirs"}]
       IN  IF r.err = NoError
           THEN headers' = [tried EXCEPT !.pc = "done",
                                         !.ret = [dirs |-> r.dirs, err |-> NoError]]
           ELSE IF IsNotExist(r.err)
           THEN headers' = [tried EXCEPT !.pc = "getSysfsHeaderDirs"]
           ELSE headers' = [tried EXCEPT !.pc = "done",
                                         !.ret = [dirs |-> <<>>, err |-> r.err]]
    /\ UNCHANGED <<engineVars, span, call, nCalls, run, wg, core, sync,
                   samplerExit, exit, stop, rateByService, panicked>>

\* variant of lines 35-40: a failed fallback returns its own error
Find_Fallback_OwnError ==
    /\ headers.pc = "getSysfsHeaderDirs"
    /\ LET r == getSysfsHeaderDirs(headers.host, headers.hv)
           tried == [headers EXCEPT !.fallback = r,
                                    !.tried = @ \cup {"getSysfsHeaderDirs"}]
       IN  headers' = [tried EXCEPT !.pc = "done", !.ret = r]
    /\ UNCHANGED <<engineVars, span, call, nCalls, run, wg, core, sync,
                   samplerExit, exit, stop, rateByService, panicked>>

\* lines 35-40: the fallback; syserr is local to the if, err is the primary's
Find_Fallback ==
    /\ headers.pc = "getSysfsHeaderDirs"
    /\ LET r == getSysfsHeaderDirs(headers.host, headers.hv)
           tried == [headers EXCEPT !.fallback = r,
                                    !.tried = @ \cup {"getSysfsHeaderDirs"}]
       IN  IF r.err = NoError
           THEN headers' = [tried EXCEPT !.pc = "done",
                                         !.ret = [dirs |-> r.dirs, err |-> NoError]]
           ELSE headers' = [tried EXCEPT !.pc = "done",
                                         !.ret = [dirs |-> <<>>,
                                                  err |-> headers.primary.err]]
    /\ UNCHANGED <<engineVars, span, call, nCalls, run, wg, core, sync,
                   samplerExit, exit, stop, rateByService, panicked>>

\* lines 23-41
FindHeaderDirs ==
    \/ Find_HostVersion
    \/ Find_Primary
    \/ Find_Fallback

-----------------------------------------------------------------------------
(* NewPriorityEngine, lines 49-59, and the callers before their first call *)

\* a new engine, and its callers with the roots of their first traces
NewEngine(roots) ==
    /\ catalog = <<>>
    /\ counts = <<>>
    /\ accounted = <<>>
    /\ score = <<>>
    /\ sampledCount = 0
    /\ span = roots
    /\ call = [c \in DOMAIN roots |-> IdleCall]
    /\ nCalls = [counted |-> <<>>, sampled |-> 0, by |-> <<>>]

\* NewPriorityEngine has returned, Run() has not been called
NotStarted ==
    /\ run = "init"
    /\ wg = 0
    /\ core = "none"
    /\ sync = "none"
    /\ samplerExit = FALSE
    /\ exit = FALSE
    /\ stop = [k \in Stoppers |-> [pc |-> "idle", duringRun |-> FALSE]]
    /\ rateByService = <<>>
    /\ panicked = FALSE

InitFor(roots) == NewEngine(roots) /\ NotStarted /\ headers = NoLookup

\* a root of service "a" without parent and without metrics
BareRoot == [Service |-> "a", ParentID |-> 0, Metrics |-> <<>>]

Init == InitFor([c \in Producers |-> BareRoot])

\* the engine through its whole lifecycle, fed with kept traces
Next ==
    \/ \E c \in Producers : NewKeptTrace(c)
    \/ \E c \in Producers : FedSample(c)
    \/ Run
    \/ \E k \in Stoppers : Stop(k)

Spec == Init /\ [][Next]_vars


\* Sample on every kind of trace and root, on an engine whose core loop runs
NextSample ==
    \/ \E c \in Producers : NewTrace(c)
    \/ \E c \in Producers : Sample(c)
    \/ Run_Start
    \/ Sampler_DecayTick

SpecSample == Init /\ [][NextSample]_vars

\* the roots of the traces of service "a" of priority 0 or 1, without a rate
\* annotation
CountedRoots ==
    {[BareRoot EXCEPT !.Metrics = [k \in {KeySamplingPriority} |-> Rat(p, 1)]] :
        p \in {0, 1}}

\* Sample as one of several concurrent callers, on non-empty traces (a call
\* with an empty trace returns before it reads or writes anything shared)
ConcSample(c) ==
    \/ Sample_Enter(c, MaxConcCalls) /\ call'[c].traceLen > 0
    \/ Sample_Register(c)
    \/ Sample_CountSignature(c)
    \/ Sample_ApplyRate(c)
    \/ Sample_CountSample(c)

\* several producers call Sample concurrently on an engine whose core loop
\* runs, each with the root of its own trace and with any environment: every
\* interleaving of the steps of their calls and of the decay tick
InitConc == \E roots \in [Callers -> CountedRoots] : InitFor(roots)

NextConc ==
    \/ \E c \in Callers : ConcSample(c)
    \/ Run_Start
    \/ Sampler_DecayTick

SpecConc == InitConc /\ [][NextConc]_vars

-----------------------------------------------------------------------------
(* The rate-sync loop on an engine that has been sampling for a while *)

Pairs == {ServiceSignature(sv, e) : sv \in Services, e \in Envs}

RECURSIVE Halved(_, _)
Halved(v, k) == IF k = 0 THEN v ELSE Halved(v \div 2, k - 1)

\* an engine after n[x] Sample calls of priority 0 for every pair x of reg,
\* taken in by the decay tick k[x] ticks ago (k[x] = -1: not yet), for reg
\* among pairs and up to maxCalls calls each
EngineInUse(pairs, maxCalls) ==
    \E reg \in SUBSET pairs :
        \E n \in [reg -> 1..maxCalls], k \in [reg -> -1..MaxHalvings] :
            LET cat == [x \in reg |-> NewSignature(x)]
                sigs == {cat[x] : x \in reg}
                pairOf(sig) == CHOOSE x \in reg : cat[x] = sig
                ticked == {cat[x] : x \in {y \in reg : k[y] >= 0}}
            IN  /\ catalog = cat
                /\ counts = [sig \in sigs |-> n[pairOf(sig)]]
                /\ accounted = [sig \in ticked |-> n[pairOf(sig)]]
                /\ score = [sig \in ticked |->
                               Halved(ScoreUnit * n[pairOf(sig)], k[pairOf(sig)])]
                /\ sampledCount = 0
                /\ span = [c \in Producers |-> BareRoot]
                /\ call = [c \in Producers |-> IdleCall]
                /\ nCalls = [counted |-> n, sampled |-> 0,
                             by |-> IF reg = {} THEN <<>>
                                    ELSE [c \in Producers |-> Sum(n)]]

\* Run() has started both goroutines and no Stop() has been invoked
Running ==
    /\ run = "wait"
    /\ wg = WaitGroupSize
    /\ core = "run"
    /\ sync = "select"
    /\ samplerExit = FALSE
    /\ exit = FALSE
    /\ stop = [s \in Stoppers |-> [pc |-> "idle", duringRun |-> FALSE]]
    /\ rateByService = <<>>
    /\ panicked = FALSE

InitRates == EngineInUse(Pairs, MaxCalls) /\ Running /\ headers = NoLookup

NextRates ==
    \/ Sampler_DecayTick
    \/ Sync_Tick
    \/ Sync_SetAll

SpecRates == InitRates /\ [][NextRates]_vars

-----------------------------------------------------------------------------
(* The lifecycle of an engine in use, under fair scheduling *)

InitFair ==
    /\ EngineInUse({ServiceSignature("a", "prod")}, MaxFeed)
    /\ NotStarted
    /\ headers = NoLookup

NextFair ==
    \/ Run
    \/ \E k \in Stoppers : Stop(k)

\* Scheduling: a goroutine that can take its next step is given the
\* processor in the end, so a Stop() under way closes s.exit, Sampler.Run
\* returns once signalled, a SetAll under way completes and wg.Wait()
\* returns once the counter is zero.  The select of the sync loop chooses at
\* random among its ready cases: with s.exit closed the exit case is ready at
\* every select, and it is not passed over forever.
Fairness ==
    /\ \A k \in Stoppers : WF_vars(Stop_Close(k))
    /\ WF_vars(Core_Done)
    /\ WF_vars(Sync_SetAll)
    /\ SF_vars(Sync_Exit)
    /\ WF_vars(Run_Return)

SpecFair == InitFair /\ [][NextFair]_vars /\ Fairness

-----------------------------------------------------------------------------
(* FindHeaderDirs on every host *)

InitHeaders ==
    /\ NewEngine([c \in Producers |-> BareRoot])
    /\ NotStarted
    /\ \E host \in Hosts : headers = Lookup(host)

NextHeaders == FindHeaderDirs

SpecHeaders == InitHeaders /\ [][NextHeaders]_vars

-----------------------------------------------------------------------------
(* Properties of Sample, checked under SpecSample *)

Done(c) == call[c].pc = "done"
Pre(c) == call[c].pre
CallKey(c) == [service |-> span[c].Service, env |-> call[c].env]
CountOf(svcSig) ==
    IF svcSig \in DOMAIN catalog THEN At(counts, catalog[svcSig]) ELSE 0

\* calls between their entry and the CountSignature / CountSample they owe
OwesCount(svcSig) ==
    Cardinality({c \in Producers : /\ call[c].pc \in {"register", "count"}
                                   /\ CallKey(c) = svcSig})
OwesSample ==
    Cardinality({c \in Producers :
                    /\ call[c].pc \in {"register", "count", "applyRate", "countSample"}
                    /\ Kept(span[c])})

Untouched(c) ==
    /\ catalog = Pre(c).catalog
    /\ counts = Pre(c).counts
    /\ sampledCount = Pre(c).sampledCount
    /\ span[c] = Pre(c).root

\* C1: every Sample call with a non-empty trace and priority 0 or 1 registers
\* its (service, env) pair and counts its signature exactly once, sampled or
\* not; CountSample is called exactly once for priority 1 and never for
\* priority 0.  So the signature counts add up to the number of such calls
\* and the sampled counter to the number of those with priority 1.
C1_CounterAccounting ==
    /\ DOMAIN catalog \subseteq DOMAIN nCalls.counted
    /\ DOMAIN counts \subseteq Range(catalog)
    /\ \A x, y \in DOMAIN catalog : catalog[x] = catalog[y] => x = y
    /\ \A svcSig \in DOMAIN nCalls.counted :
          CountOf(svcSig) + OwesCount(svcSig) = nCalls.counted[svcSig]
    /\ Sum(counts) + Cardinality({c \in Producers :
                                    call[c].pc \in {"register", "count"}}) = TotalCalls
    /\ sampledCount + OwesSample = nCalls.sampled
    /\ \A c \in Producers :
          Done(c) /\ InFeedbackLoop(call[c].traceLen, Pre(c).root)
              => /\ CallKey(c) \in DOMAIN catalog
                 /\ call[c].signature = catalog[CallKey(c)]

C1_Witness ==
    /\ \A c \in Producers : Done(c)
    /\ TotalCalls = 2
    /\ nCalls.sampled = 1
    /\ sampledCount = 1
    /\ Sum(counts) = 2

\* C2: a non-empty trace with priority 1 and a (service, env) pair not seen
\* before: Sample returns true, the catalog gains exactly that one signature,
\* its counter and the sampled counter go up by one, and a parentless root
\* without _dd.agent_psr and _dd.rule_psr carries the legacy rate key.  A
\* call with a pair already registered adds nothing to the catalog.
C2_FreshKeptTrace ==
    \A c \in Producers :
        Done(c) /\ call[c].traceLen > 0 /\ call[c].samplingPriority = 1 =>
            /\ call[c].ret = TRUE
            /\ sampledCount = Pre(c).sampledCount + 1
            /\ IF CallKey(c) \in DOMAIN Pre(c).catalog
               THEN catalog = Pre(c).catalog
               ELSE /\ DOMAIN catalog = DOMAIN Pre(c).catalog \cup {CallKey(c)}
                    /\ Cardinality(DOMAIN catalog)
                       = Cardinality(DOMAIN Pre(c).catalog) + 1
                    /\ \A x \in DOMAIN Pre(c).catalog : catalog[x] = Pre(c).catalog[x]
                    /\ catalog[CallKey(c)] \notin Range(Pre(c).catalog)
                    /\ counts = Put(Pre(c).counts, catalog[CallKey(c)], 1)
                    /\ (/\ span[c].ParentID = 0
                        /\ ~hasMetric(Pre(c).root, agentRateKey)
                        /\ ~hasMetric(Pre(c).root, ruleRateKey))
                       => hasMetric(span[c], deprecatedRateKey)

C2_Witness ==
    \E c \in Producers :
        /\ Done(c) /\ call[c].traceLen > 0 /\ call[c].samplingPriority = 1
        /\ Cardinality(DOMAIN Pre(c).catalog) = 1
        /\ CallKey(c) \notin DOMAIN Pre(c).catalog
        /\ \E x \in DOMAIN Pre(c).catalog : x.service = span[c].Service
        /\ ~hasMetric(Pre(c).root, deprecatedRateKey)
        /\ hasMetric(span[c], deprecatedRateKey)

\* C3: a non-empty trace whose root has a priority below 0: Sample returns
\* false and changes neither the catalog, nor a signature counter, nor the
\* sampled counter, nor the root.
C3_NegativePriority ==
    \A c \in Producers :
        (/\ Done(c) /\ call[c].traceLen > 0
         /\ hasMetric(Pre(c).root, KeySamplingPriority)
         /\ call[c].samplingPriority < 0)
            => call[c].ret = FALSE /\ Untouched(c)

C3_Witness ==
    \E c \in Producers :
        /\ Done(c) /\ call[c].traceLen > 0
        /\ hasMetric(Pre(c).root, KeySamplingPriority)
        /\ call[c].samplingPriority < 0
        /\ span[c].ParentID = 0
        /\ DOMAIN span[c].Metrics = {KeySamplingPriority}
        /\ Cardinality(DOMAIN catalog) = 1

\* C4: a non-empty trace whose root has a priority above 1: Sample returns
\* true and changes neither the catalog, nor a counter, nor the root.
C4_FinalPriority ==
    \A c \in Producers :
        (Done(c) /\ call[c].traceLen > 0 /\ call[c].samplingPriority > 1)
            => call[c].ret = TRUE /\ Untouched(c)

C4_Witness ==
    \E c \in Producers :
        /\ Done(c) /\ call[c].traceLen > 0 /\ call[c].samplingPriority > 1
        /\ call[c].ret
        /\ span[c].ParentID = 0
        /\ DOMAIN span[c].Metrics = {KeySamplingPriority}
        /\ Cardinality(DOMAIN catalog) = 1

\* C5: an empty trace, whatever the root and the environment: Sample returns
\* false and changes neither the catalog, nor a counter, nor the root.
C5_EmptyTrace ==
    \A c \in Producers :
        Done(c) /\ call[c].traceLen = 0 => call[c].ret = FALSE /\ Untouched(c)

C5_Witness ==
    \E c \in Producers :
        /\ Done(c) /\ call[c].traceLen = 0
        /\ call[c].env = "dev"
        /\ span[c].Service = "b"
        /\ Kept(span[c])
        /\ span[c].ParentID = 0
        /\ DOMAIN span[c].Metrics = {KeySamplingPriority}
        /\ call[c].ret = FALSE

\* a step of producer c other than the arrival of another root
SampleStep(c) == call'[c] # call[c] /\ call'[c].pc # "idle"

\* C6: a root that carries _dd.agent_psr, _dd.rule_psr or the legacy key is
\* left as it is by every step of every Sample call: the legacy key is only
\* written when all three are absent, and a value it has is never replaced,
\* whatever the rate of the signature has become.
C6_RatePrecedence ==
    [][\A c \in Producers :
          SampleStep(c) =>
              /\ (\/ hasMetric(span[c], agentRateKey)
                  \/ hasMetric(span[c], ruleRateKey)
                  \/ hasMetric(span[c], deprecatedRateKey)) => span'[c] = span[c]
              /\ span'[c] # span[c] =>
                    /\ hasMetric(span'[c], deprecatedRateKey)
                    /\ Restrict(span'[c].Metrics, DOMAIN span[c].Metrics)
                       = span[c].Metrics]_vars

\* a second kept call on a root whose legacy key an earlier call wrote, the
\* rate of the signature having changed since
C6_Witness ==
    \E c \in Producers :
        /\ Done(c) /\ call[c].samplingPriority = 1 /\ call[c].traceLen > 0
        /\ span[c].ParentID = 0
        /\ hasMetric(Pre(c).root, deprecatedRateKey)
        /\ span[c].Metrics[deprecatedRateKey] = One
        /\ ThresholdTo1(GetSignatureSampleRate(call[c].signature)) # One

\* the step of Sample that ran applyRate and wrote the root
WroteRate(c) ==
    /\ call[c].pc = "applyRate"
    /\ call'[c].pc = "countSample"
    /\ span'[c] # span[c]

\* C7: the value applyRate writes to the legacy key is exactly 1 when the
\* rate GetSignatureSampleRate returns for the signature is above 0.3, and
\* that rate otherwise; no value strictly between 0.3 and 1 is written.
C7_RoundingLaw ==
    [][\A c \in Producers :
          WroteRate(c) =>
              LET rate == GetSignatureSampleRate(call[c].signature)
                  written == span'[c].Metrics[deprecatedRateKey]
              IN  /\ Gt(rate, Rat(3, 10)) => written = Rat(1, 1)
                  /\ ~Gt(rate, Rat(3, 10)) => written = rate
                  /\ ~(Gt(written, Rat(3, 10)) /\ Gt(Rat(1, 1), written))]_vars

\* applyRate has just written 1 for a rate between 0.3 and 1
C7_Witness ==
    \E c \in Producers :
        /\ call[c].pc = "countSample"
        /\ ~hasMetric(Pre(c).root, deprecatedRateKey)
        /\ hasMetric(span[c], deprecatedRateKey)
        /\ span[c].Metrics[deprecatedRateKey] = One
        /\ Gt(GetSignatureSampleRate(call[c].signature), Rat(3, 10))
        /\ Gt(One, GetSignatureSampleRate(call[c].signature))

-----------------------------------------------------------------------------
(* Properties of Run and Stop, checked under Spec *)

StopReturned(k) == stop[k].pc = "returned"

\* C9: when a Stop() made while Run() was executing has returned, the core
\* loop and the sync loop have both completed, so that no SetAll can follow.
C9_StopJoins ==
    \A k \in Stoppers :
        StopReturned(k) /\ stop[k].duringRun => core = "done" /\ sync = "done"

\* what a returned Stop() does establish: both loops have been signalled
StopSignals ==
    \A k \in Stoppers : StopReturned(k) => samplerExit /\ exit

\* Stop() has returned while Run() executes and both loops are still running
StopReturnedEarly ==
    \E k \in Stoppers :
        /\ StopReturned(k) /\ stop[k].duringRun
        /\ run = "wait" /\ core = "run" /\ sync = "select"
        /\ rateByService # <<>>

\* C10: Run() returns only when Sampler.Run() has returned and the sync loop
\* has taken the exit case, and never before Stop() has been invoked.
C10_RunBlocks ==
    run = "returned" =>
        /\ core = "done"
        /\ sync = "done"
        /\ wg = 0
        /\ \E k \in Stoppers : stop[k].pc # "idle"

C10_Witness ==
    /\ run = "returned"
    /\ \E k \in Stoppers : StopReturned(k) /\ stop[k].duringRun
    /\ rateByService # <<>>

\* C11: a second Stop() on the same engine is a no-op: it does not panic,
\* whatever the first one has done and whether Run() executes or not.
C11_DoubleStopNoOp ==
    /\ ~panicked
    /\ \A k \in Stoppers : stop[k].pc # "panic"

NoStopInvoked == \A k \in Stoppers : stop[k].pc = "idle"

\* the steps of the sync loop: the tick case taken, and the SetAll call
TickTaken == sync = "select" /\ sync' = "setAll"
SetAllCalled == sync = "setAll" /\ sync' = "select"

\* C12: the sync loop takes a tick only while Run() executes, and each tick
\* taken is followed by exactly one SetAll before the next select; SetAll is
\* called on no other occasion, in particular not when Run() starts.  The
\* argument is ratesByService() as computed at the call: it replaces the
\* whole table and has an entry for every ServiceSignature of the catalog.
\* While no Stop() has been invoked nothing keeps the call from happening.
C12_PeriodicPublication ==
    [][/\ TickTaken => run = "wait"
       /\ sync = "setAll" /\ sync' # sync => SetAllCalled
       /\ sync = "setAll" /\ NoStopInvoked => ~panicked /\ run = "wait"
       /\ SetAllCalled =>
             /\ rateByService' = ratesByService
             /\ DOMAIN rateByService' = DOMAIN catalog
             /\ catalog' = catalog
       /\ rateByService' # rateByService => SetAllCalled
       /\ run = "init" /\ run' # run =>
             /\ rateByService' = rateByService
             /\ sync' = "select"]_vars

\* a registered pair has been published while no Stop() was invoked, and
\* its rate is no longer the default
C12_Witness ==
    /\ NoStopInvoked
    /\ run = "wait"
    /\ sync = "select"
    /\ DOMAIN catalog # {}
    /\ DOMAIN rateByService = DOMAIN catalog
    /\ \E x \in DOMAIN rateByService : rateByService[x] # One

-----------------------------------------------------------------------------
(* Frame of Sample, checked under SpecSample *)

\* the span without the legacy rate key
WithoutLegacyRate(s) ==
    [s EXCEPT !.Metrics = Restrict(s.Metrics, (DOMAIN s.Metrics) \ {deprecatedRateKey})]

\* C13: the only thing a Sample call changes on the span it is given is the
\* legacy rate key, written at most once, by applyRate: the service, the
\* parent, _dd.agent_psr, _dd.rule_psr and the priority metric stay as they
\* are.  A span with ParentID # 0 is not written at all, and for priority 1
\* the call still returns true and counts the signature and the sample.
C13_FrameOfSample ==
    [][\A c \in Producers :
          SampleStep(c) =>
              /\ WithoutLegacyRate(span'[c]) = WithoutLegacyRate(span[c])
              /\ span'[c] # span[c] =>
                    /\ call[c].pc = "applyRate"
                    /\ span[c] = Pre(c).root
                    /\ ~hasMetric(span[c], deprecatedRateKey)
              /\ span[c].ParentID # 0 => span'[c] = span[c]
              /\ (/\ call[c].pc = "countSample"
                  /\ call'[c].pc = "done"
                  /\ call[c].samplingPriority = 1
                  /\ span[c].ParentID # 0) =>
                    /\ call'[c].ret = TRUE
                    /\ span'[c] = Pre(c).root
                    /\ sampledCount' = Pre(c).sampledCount + 1
                    /\ At(counts', call[c].signature)
                       = At(Pre(c).counts, call[c].signature) + 1]_vars

\* a kept call on a span that has a parent and no rate annotation, whose
\* signature has a rate by then
C13_Witness ==
    \E c \in Producers :
        /\ Done(c) /\ call[c].traceLen > 0 /\ call[c].samplingPriority = 1
        /\ call[c].ret = TRUE
        /\ Pre(c).root.ParentID # 0
        /\ DOMAIN Pre(c).root.Metrics = {KeySamplingPriority}
        /\ span[c] = Pre(c).root
        /\ sampledCount = Pre(c).sampledCount + 1
        /\ At(score, call[c].signature) > 0

-----------------------------------------------------------------------------
(* Sample and Stop together, checked under Spec *)

StopsInvoked == Cardinality({k \in Stoppers : stop[k].pc # "idle"})

\* the call of producer c is between its entry and its return
InFlight(c) == call[c].pc \in {"register", "count", "applyRate", "countSample"}

\* the next step of the call is not held back by anything
CanProceed(c) ==
    ENABLED (\/ Sample_Register(c)
             \/ Sample_CountSignature(c)
             \/ Sample_ApplyRate(c)
             \/ Sample_CountSample(c))

\* C14: with Stop() invoked once, before or during a Sample call or not at
\* all, the process has not panicked, a call in flight can always take its
\* next step, a returned call on a non-empty trace has returned priority > 0,
\* and the counters hold every call of priority 0 or 1 exactly once.
C14_SampleRacingStop ==
    StopsInvoked <= 1 =>
        /\ ~panicked
        /\ \A c \in Producers : InFlight(c) => CanProceed(c)
        /\ \A c \in Producers :
              Done(c) /\ call[c].traceLen > 0
                  => call[c].ret = (call[c].samplingPriority > 0)
        /\ Sum(counts) + Cardinality({c \in Producers :
                                        call[c].pc \in {"register", "count"}})
           = TotalCalls
        /\ sampledCount + OwesSample = nCalls.sampled

\* Stop() called while Run() executes is between its two signals, and a
\* Sample call of a kept trace is in flight: it has counted the signature
\* and not yet the sample
C14_Witness ==
    \E c \in Producers, k \in Stoppers :
        /\ StopsInvoked = 1
        /\ stop[k].pc = "close" /\ stop[k].duringRun
        /\ samplerExit /\ ~exit
        /\ call[c].pc = "countSample"
        /\ Sum(counts) = 1
        /\ sampledCount = 0

-----------------------------------------------------------------------------
(* Concurrent callers of Sample, checked under SpecConc *)

\* the call of c has got its Signature from the catalog
Registered(c) == call[c].pc \in {"count", "applyRate", "countSample", "done"}

Uncounted(svcSig) ==
    Cardinality({c \in Callers : /\ call[c].pc \in {"register", "count"}
                                 /\ CallKey(c) = svcSig})

\* the decay tick has taken in every count made so far, and none is pending
AllAccounted ==
    /\ accounted = counts
    /\ \A c \in Callers : call[c].pc \notin {"register", "count"}

-----------------------------------------------------------------------------
(* ratesByService, checked under SpecRates *)

-----------------------------------------------------------------------------
(* Shutdown, checked under SpecFair *)

\* a Stop() has been invoked while Run() was executing
StoppedDuringRun == \E k \in Stoppers : stop[k].pc # "idle" /\ stop[k].duringRun

\* C18: when Stop() has been invoked while Run() executes, Run() returns in
\* the end, unless Stop() is invoked a second time: the one call ends both
\* the core loop and the sync loop, however many ticks the sync loop takes
\* in between.
C18_ShutdownLiveness ==
    StoppedDuringRun ~> (run = "returned" \/ StopsInvoked > 1)

\* Run() has returned after the only Stop(), which was made while it
\* executed and after the sync loop had published
C18_Witness ==
    /\ StopsInvoked = 1
    /\ StoppedDuringRun
    /\ run = "returned"
    /\ wg = 0
    /\ rateByService # <<>>

-----------------------------------------------------------------------------
(* The shared rate store, checked under Spec *)

\* C19: the store is written by the SetAll step of the sync loop and by
\* nothing else: only while Run() executes, so not before Run() is called,
\* when the store is still as it was created, and not after Run() has
\* returned, when the sync loop has ended.  No step of a Sample call and no
\* step of Stop() changes the store.
C19_PublicationConfined ==
    [][/\ (SetAllCalled \/ rateByService' # rateByService) =>
             /\ sync = "setAll"
             /\ run = "wait" /\ run' = "wait"
             /\ call' = call /\ span' = span /\ stop' = stop
       /\ run = "init" => rateByService = <<>> /\ sync = "none"
       /\ run = "returned" =>
             /\ sync = "done"
             /\ rateByService' = rateByService
             /\ run' = "returned"
       /\ (call' # call \/ stop' # stop) => rateByService' = rateByService]_vars

\* Run() has returned with a store that is no longer up to date: the rates
\* have changed since the last SetAll and nothing was published after it
C19_Witness ==
    /\ run = "returned"
    /\ sync = "done"
    /\ rateByService # <<>>
    /\ rateByService # ratesByService
    /\ \E c \in Producers : Done(c) /\ call[c].ret = TRUE

-----------------------------------------------------------------------------
(* FindHeaderDirs, checked under SpecHeaders *)

TriedPrimary == "getHeaderDirs" \in headers.tried
TriedFallback == "getSysfsHeaderDirs" \in headers.tried

\* C20: without a host version FindHeaderDirs makes no lookup and returns an
\* error; the directories of a successful primary lookup are returned as
\* they are; the fallback is tried only after the primary lookup has failed
\* with the not-exist error; when the fallback fails or is not tried the
\* error returned is the primary's, not the fallback's; directories and an
\* error are never returned together.
C20_FindHeaderDirs ==
    /\ headers.host.hostVersion.err # NoError => headers.tried = {}
    /\ TriedFallback => TriedPrimary /\ headers.primary.err = ErrNotExist
    /\ headers.pc = "done" =>
          /\ ~(headers.ret.dirs # <<>> /\ headers.ret.err # NoError)
          /\ headers.ret.dirs # <<>> \/ headers.ret.err # NoError
          /\ IF headers.host.hostVersion.err # NoError
             THEN /\ headers.ret.dirs = <<>>
                  /\ headers.ret.err.cause = headers.host.hostVersion.err.msg
             ELSE /\ TriedPrimary
                  /\ headers.primary.err = NoError =>
                        /\ headers.ret = headers.primary
                        /\ ~TriedFallback
                  /\ headers.primary.err # NoError =>
                        IF TriedFallback /\ headers.fallback.err = NoError
                        THEN headers.ret = headers.fallback
                        ELSE /\ headers.ret.dirs = <<>>
                             /\ headers.ret.err = headers.primary.err
                             /\ headers.ret.err # headers.fallback.err

\* on a debian host the headers under build are of another kernel and there
\* are none under source: the fallback was tried, found no sysfs headers,
\* and the not-exist error of the primary lookup was returned
C20_Witness ==
    /\ headers.pc = "done"
    /\ headers.host.Platform = "debian"
    /\ headers.host.build.err = NoError
    /\ headers.host.build.v # headers.hv
    /\ headers.host.source.err = ENOENT
    /\ TriedFallback
    /\ headers.fallback.err = Err("unable to find sysfs kernel headers")
    /\ headers.ret = [dirs |-> <<>>, err |-> ErrNotExist]

====
